---- MODULE Spec2Model ----
(***************************************************************************)
(* Dispatch router: ingress handlers (REST / gRPC), the bounded order      *)
(* queue, the single assignment engine task, and the registry of           *)
(* couriers, orders and assignments they share.                            *)
(*                                                                         *)
(* The handlers run on a multi-threaded runtime, so every access to a      *)
(* concurrent map, to the queue or to a metric is one step that can        *)
(* interleave with the steps of every other task.  Local computation       *)
(* between two such accesses is folded into the step that precedes it.     *)
(*                                                                         *)
(* Identifiers (UUID v4) are opaque and fresh: the n-th identifier drawn   *)
(* for a map is modelled by the number n.  Timestamps are not modelled.    *)
(* Scores are f64 in the source; they are modelled exactly, in units of    *)
(* 1/12000 (sub-scores in units of 1/120, weights in percent); NaN is a     *)
(* value of its own, which no arithmetic is applied to.  Locations          *)
(* are points of one meridian, named by their offset in km, so that the    *)
(* great-circle distance of two of them is the difference of the offsets.  *)
(***************************************************************************)
EXTENDS Integers, Sequences, FiniteSets, TLC

\* ------------------------------------------------------------------ bounds
MaxCouriers == 2
MaxOrders == 2
MaxCapacity == 2
NumProducers == 2
MaxQueueSize == 2
MaxIterations == 3
MaxEventBuffer == 1
MaxSubscribers == 2
MaxRejected == 2
MaxNotFound == 1
MaxScoreCapacity == 5

\* ------------------------------------------------------- inputs of ingress
Capacities == 1..MaxCapacity
QueueSizes == 1..MaxQueueSize
EventBufferSizes == 1..MaxEventBuffer
Locations == {0, 1}
Pickups == {0}
Ratings == {5}
\* The f64 NaN (of positive sign), which a gRPC request can carry as a rating.
NaN == -1000000
\* Ratings of gRPC requests: out of range, in range, and NaN.
RequestRatings == {NaN, 4, 7}
Priorities == {"Low", "Urgent"}
CourierStatus == {"Available", "Busy", "Offline"}
OrderStatus == {"Pending", "Assigned", "InTransit", "Delivered"}
SubscriberKinds == {"ws", "grpc"}
\* Courier names of a request, as sequences of characters.
Names == {<<>>, <<" ">>, <<"a">>, <<" ", "a">>}

None == 0
NoOrder == [id |-> 0]
NoWinner == [id |-> 0, score |-> 0]

VARIABLES
    couriers,       \* AppState.couriers: id -> Courier
    orders,         \* AppState.orders: id -> DeliveryOrder
    assignments,    \* AppState.assignments: id -> Assignment
    queue,          \* the mpsc channel of orders (order_tx / order_rx)
    order_queue_size, \* Config.order_queue_size, the capacity of the channel
    rxClosed,       \* the Receiver order_rx has been dropped
    txIngress,      \* ingress (router, gRPC service, handlers) holds the AppState
    gauge,          \* metrics.orders_in_queue
    totals,         \* metrics.assignments_total, by outcome
    events,         \* every assignment sent on assignment_events_tx, in order
    sending,        \* orders whose handler awaits order_tx.send
    incPending,     \* handlers between a completed send and the gauge increment
    epc,            \* the engine task: where it is in the loop
    cur,            \* the engine task: the order being processed
    scanTodo,       \* couriers the running iteration of the map still visits
    candidates,     \* clones of the eligible couriers visited so far
    winner,         \* (winning_courier.id, best_score)
    outcome,        \* result of process_order: "success" or "error"
    sent,           \* result of assignment_events_tx.send, which `let _` drops
    event_buffer_size, \* Config.event_buffer_size, given to broadcast::channel
    subscribers,    \* the receivers of assignment_events_tx and their streams
    rejected,       \* requests ingress has answered with BadRequest so far
    not_found       \* requests ingress has answered with NotFound so far

vars == <<couriers, orders, assignments, queue, order_queue_size, rxClosed,
          txIngress, gauge, totals, events,
          sending, incPending, epc, cur, scanTodo, candidates, winner, outcome,
          sent,
          event_buffer_size, subscribers, rejected, not_found>>

registry == <<couriers, orders, assignments>>
metrics == <<gauge, totals>>
channel == <<order_queue_size, rxClosed, txIngress>>
producerVars == <<sending, incPending>>
scanVars == <<scanTodo, candidates>>
engineVars == <<epc, cur, scanTodo, candidates, winner, outcome, sent>>
fanout == <<event_buffer_size, subscribers>>
answers == <<rejected, not_found>>

\* ------------------------------------------------------------------ helpers
RECURSIVE SumLoad(_, _)
SumLoad(cs, S) ==
    IF S = {} THEN 0
    ELSE LET c == CHOOSE x \in S : TRUE
         IN cs[c].current_load + SumLoad(cs, S \ {c})

Min(a, b) == IF a < b THEN a ELSE b
Max(a, b) == IF a > b THEN a ELSE b
Abs(a) == IF a < 0 THEN -a ELSE a
Clamp(x, lo, hi) == Max(lo, Min(x, hi))

\* f64::clamp keeps NaN; f64::max ignores a NaN operand.
f64_clamp(x, lo, hi) == IF x = NaN THEN NaN ELSE Clamp(x, lo, hi)
f64_max(a, b) == IF a = NaN THEN b ELSE IF b = NaN THEN a ELSE Max(a, b)

\* f64::total_cmp: -1 (Less), 0 (Equal), 1 (Greater); NaN is above every
\* number.
total_cmp(a, b) ==
    IF a = b THEN 0
    ELSE IF a = NaN THEN 1
    ELSE IF b = NaN THEN -1
    ELSE IF a < b THEN -1 ELSE 1

Put(f, k, v) == [x \in DOMAIN f \cup {k} |-> IF x = k THEN v ELSE f[x]]

\* ------------------------------------------------------------------ scoring
DISTANCE_WEIGHT == 40
LOAD_WEIGHT == 30
RATING_WEIGHT == 20
PRIORITY_WEIGHT == 10

haversine_km(a, b) == Abs(b - a)

distance_score(distance_km) == 120 \div (1 + f64_max(distance_km, 0))

\* Mutant: a courier is either free or not, however much it carries.
load_score_FreeOrNot(current_load, capacity) ==
    IF capacity = 0 \/ current_load > 0 THEN 0 ELSE 120

load_score(current_load, capacity) ==
    IF capacity = 0 THEN 0
    ELSE Clamp(120 - (120 * current_load) \div capacity, 0, 120)

rating_score(rating) ==
    IF rating = NaN THEN NaN ELSE Clamp((120 * rating) \div 5, 0, 120)

priority_score(priority) ==
    CASE priority = "Low" -> 60
      [] priority = "Normal" -> 84
      [] priority = "High" -> 102
      [] priority = "Urgent" -> 120

weighted_score(b) ==
    IF NaN \in {b.distance_score, b.load_score, b.rating_score, b.priority_score}
    THEN NaN
    ELSE b.distance_score * DISTANCE_WEIGHT + b.load_score * LOAD_WEIGHT
         + b.rating_score * RATING_WEIGHT + b.priority_score * PRIORITY_WEIGHT

score_breakdown(courier, order) ==
    [distance_score |-> distance_score(haversine_km(courier.location, order.pickup)),
     load_score |-> load_score(courier.current_load, courier.capacity),
     rating_score |-> rating_score(courier.rating),
     priority_score |-> priority_score(order.priority)]

compute_score(courier, order) == weighted_score(score_breakdown(courier, order))

\* -------------------------------------------------------------------- queue
\* Mutant: an unbounded channel.
SendReady_Unbounded == ~rxClosed

\* tokio::sync::mpsc::Sender::send completes when the channel is open and
\* has a free slot; it fails when the Receiver is gone.
SendReady == ~rxClosed /\ Len(queue) < order_queue_size
SendFails == rxClosed

\* ---------------------------------------------------------------------- Init
Init ==
    /\ couriers = <<>>
    /\ orders = <<>>
    /\ assignments = <<>>
    /\ queue = <<>>
    /\ order_queue_size \in QueueSizes
    /\ rxClosed = FALSE
    /\ txIngress = TRUE
    /\ gauge = 0
    /\ totals = [success |-> 0, error |-> 0]
    /\ events = <<>>
    /\ sending = {}
    /\ incPending = 0
    /\ epc = "recv"
    /\ cur = NoOrder
    /\ scanTodo = {}
    /\ candidates = {}
    /\ winner = NoWinner
    /\ outcome = "none"
    /\ sent = "none"
    /\ event_buffer_size \in EventBufferSizes
    /\ subscribers = <<>>
    /\ rejected = 0
    /\ not_found = 0

\* ----------------------------------------------------------- ingress: couriers
\* create_courier (REST and gRPC): the request passed validation.  A courier
\* inserted while the engine iterates the map is in a shard the iteration has
\* passed (missed) or in one it still visits.
CreateCourier(name, capacity, rating, location, missed) ==
    /\ Cardinality(DOMAIN couriers) < MaxCouriers
    /\ capacity > 0
    /\ LET id == Cardinality(DOMAIN couriers) + 1
           courier == [id |-> id, name |-> name,
                       location |-> location, capacity |-> capacity,
                       current_load |-> 0, status |-> "Available",
                       rating |-> f64_clamp(rating, 0, 5)]
       IN /\ couriers' = Put(couriers, id, courier)
          /\ IF epc = "scan" /\ ~missed
             THEN scanTodo' = scanTodo \cup {id}
             ELSE (epc = "scan" \/ ~missed) /\ UNCHANGED scanTodo
    /\ UNCHANGED <<orders, assignments, queue, channel, fanout, answers,
                   metrics, events, producerVars, epc, cur, candidates, winner,
                   outcome, sent>>

\* str::trim: the name without its leading and trailing whitespace.
IsWhitespace(ch) == ch \in {" ", "\t", "\n"}

RECURSIVE trim_start(_)
trim_start(s) ==
    IF s # <<>> /\ IsWhitespace(Head(s)) THEN trim_start(Tail(s)) ELSE s

RECURSIVE trim_end(_)
trim_end(s) ==
    IF s # <<>> /\ IsWhitespace(s[Len(s)])
    THEN trim_end(SubSeq(s, 1, Len(s) - 1))
    ELSE s

trim(s) == trim_end(trim_start(s))

\* Mutant: the handler stores the courier and validates afterwards.
create_courier_InsertsFirst(name, capacity, rating, location, missed) ==
    IF trim(name) = <<>> \/ capacity = 0
    THEN /\ rejected < MaxRejected
         /\ rejected' = rejected + 1
         /\ Cardinality(DOMAIN couriers) < MaxCouriers
         /\ LET id == Cardinality(DOMAIN couriers) + 1
            IN couriers' = Put(couriers, id,
                   [id |-> id, name |-> name, location |-> location,
                    capacity |-> capacity, current_load |-> 0,
                    status |-> "Available", rating |-> f64_clamp(rating, 0, 5)])
         /\ UNCHANGED <<orders, assignments, queue, channel, fanout, not_found,
                        metrics, events, producerVars, engineVars>>
    ELSE CreateCourier(name, capacity, rating, location, missed)

\* create_courier (REST and gRPC), the whole handler: a name that is empty
\* after trimming, or a capacity of 0, is answered with BadRequest
\* (INVALID_ARGUMENT) before anything else happens.
create_courier(name, capacity, rating, location, missed) ==
    IF trim(name) = <<>> \/ capacity = 0
    THEN /\ rejected < MaxRejected
         /\ rejected' = rejected + 1
         /\ UNCHANGED <<registry, queue, channel, fanout, not_found, metrics,
                        events, producerVars, engineVars>>
    ELSE CreateCourier(name, capacity, rating, location, missed)

UpdateCourierStatus(id, status) ==
    /\ id \in DOMAIN couriers
    /\ couriers' = [couriers EXCEPT ![id].status = status]
    /\ UNCHANGED <<orders, assignments, queue, channel, fanout, answers,
                   metrics, events, producerVars, engineVars>>

UpdateCourierLocation(id, location) ==
    /\ id \in DOMAIN couriers
    /\ couriers' = [couriers EXCEPT ![id].location = location]
    /\ UNCHANGED <<orders, assignments, queue, channel, fanout, answers,
                   metrics, events, producerVars, engineVars>>

\* The answer to a request that names a courier the map does not hold:
\* get_mut yields None and `?` returns NotFound.
CourierNotFound ==
    /\ not_found < MaxNotFound
    /\ not_found' = not_found + 1
    /\ UNCHANGED <<registry, queue, channel, fanout, rejected, metrics, events,
                   producerVars, engineVars>>

\* Mutant: a courier patched back to Available starts with an empty load.
update_courier_status_ResetsLoad(id, status) ==
    IF id \notin DOMAIN couriers
    THEN CourierNotFound
    ELSE /\ couriers' = [couriers EXCEPT
                 ![id].status = status,
                 ![id].current_load = IF status = "Available" THEN 0 ELSE @]
         /\ UNCHANGED <<orders, assignments, queue, channel, fanout, answers,
                        metrics, events, producerVars, engineVars>>

\* update_courier_status, the whole handler.
update_courier_status(id, status) ==
    IF id \notin DOMAIN couriers
    THEN CourierNotFound
    ELSE UpdateCourierStatus(id, status)

\* update_courier_location, the whole handler.
update_courier_location(id, location) ==
    IF id \notin DOMAIN couriers
    THEN CourierNotFound
    ELSE UpdateCourierLocation(id, location)

\* ------------------------------------------------------------- ingress: orders
\* Handlers are interchangeable, so the create_order calls in flight are kept
\* as the set of orders whose send is awaited and the number of calls that
\* stand between the send and the gauge increment.
InFlight == Cardinality(sending) + incPending

\* create_order (REST and gRPC), up to the insert into the orders map.
CreateOrderInsert(pickup, priority) ==
    /\ InFlight < NumProducers
    /\ Cardinality(DOMAIN orders) < MaxOrders
    /\ LET id == Cardinality(DOMAIN orders) + 1
           order == [id |-> id, pickup |-> pickup, priority |-> priority,
                     status |-> "Pending", assigned_courier |-> None]
       IN /\ orders' = Put(orders, id, order)
          /\ sending' = sending \cup {order}
    /\ UNCHANGED <<couriers, assignments, queue, channel, fanout, answers,
                   metrics, events, incPending, engineVars>>

\* Mutant: the handler keeps the order and sends it again.
ProducerSend_Twice(order) ==
    /\ order \in sending
    /\ SendReady
    /\ queue' = Append(queue, order)
    /\ incPending' = incPending + 1
    /\ UNCHANGED <<registry, channel, fanout, answers, metrics, events,
                   sending, engineVars>>

\* enqueue_order, called by a handler: order_tx.send(order).await succeeds.
ProducerSend(order) ==
    /\ order \in sending
    /\ SendReady
    /\ queue' = Append(queue, order)
    /\ sending' = sending \ {order}
    /\ incPending' = incPending + 1
    /\ UNCHANGED <<registry, channel, fanout, answers, metrics, events,
                   engineVars>>

\* enqueue_order, called by a handler: the send fails, the handler returns the
\* Internal error and the gauge is not touched.
ProducerSendFail(order) ==
    /\ order \in sending
    /\ SendFails
    /\ sending' = sending \ {order}
    /\ UNCHANGED <<registry, queue, channel, fanout, answers, metrics, events,
                   incPending, engineVars>>

\* enqueue_order, called by a handler: orders_in_queue.inc(), then the handler
\* returns the order.
ProducerInc ==
    /\ incPending > 0
    /\ gauge' = gauge + 1
    /\ incPending' = incPending - 1
    /\ UNCHANGED <<registry, queue, channel, fanout, answers, totals, events,
                   sending, engineVars>>

\* ----------------------------------------------------------------- subscribers
\* broadcast::channel(event_buffer_size) keeps the most recent values; the
\* number it keeps is event_buffer_size rounded up to a power of two.
RECURSIVE NextPowerOfTwo(_, _)
NextPowerOfTwo(n, p) == IF p >= n THEN p ELSE NextPowerOfTwo(n, 2 * p)

RingCapacity == NextPowerOfTwo(event_buffer_size, 1)

\* The events a receiver with cursor next has missed for good: they were
\* overwritten before it read them.
Lagged(next) == Len(events) - next > RingCapacity

FreeSlots == (1..MaxSubscribers) \ DOMAIN subscribers

\* Mutant: a new receiver starts at the oldest value the channel still keeps.
Subscribe_FromOldest(kind) ==
    /\ FreeSlots # {}
    /\ LET s == CHOOSE x \in FreeSlots : \A y \in FreeSlots : x <= y
       IN subscribers' = Put(subscribers, s,
              [kind |-> kind, state |-> "open",
               since |-> Len(events),
               next |-> Max(Len(events) - RingCapacity, 0), delivered |-> <<>>])
    /\ UNCHANGED <<registry, queue, channel, event_buffer_size, answers,
                   metrics, events, producerVars, engineVars>>

\* handle_socket (WebSocket) and watch_assignments (gRPC):
\* assignment_events_tx.subscribe() returns a receiver whose cursor is the
\* current write position (kept as since: the number of events published
\* before the receiver existed).
Subscribe(kind) ==
    /\ FreeSlots # {}
    /\ LET s == CHOOSE x \in FreeSlots : \A y \in FreeSlots : x <= y
       IN subscribers' = Put(subscribers, s,
              [kind |-> kind, state |-> "open",
               since |-> Len(events), next |-> Len(events),
               delivered |-> <<>>])
    /\ UNCHANGED <<registry, queue, channel, event_buffer_size, answers,
                   metrics, events, producerVars, engineVars>>

\* One turn of a subscriber: rx.recv() resolves.  A value is written to the
\* client.  A receiver that has lagged gets the Lagged error and its cursor
\* moves to the oldest value still kept: the WebSocket loop
\* (while let Ok(..) = rx.recv().await) ends on it, the gRPC stream
\* (filter_map) drops the error and goes on.
SubscriberRecv(s) ==
    /\ s \in DOMAIN subscribers
    /\ subscribers[s].state = "open"
    /\ subscribers[s].next < Len(events)
    /\ LET sub == subscribers[s]
       IN IF Lagged(sub.next)
          THEN IF sub.kind = "ws"
               THEN subscribers' = [subscribers EXCEPT ![s].state = "ended"]
               ELSE subscribers' = [subscribers EXCEPT
                        ![s].next = Len(events) - RingCapacity]
          ELSE subscribers' = [subscribers EXCEPT
                   ![s].next = @ + 1,
                   ![s].delivered = Append(@, events[sub.next + 1].id)]
    /\ UNCHANGED <<registry, queue, channel, event_buffer_size, answers,
                   metrics, events, producerVars, engineVars>>

\* The client of an open stream goes away: the receiver is dropped.
SubscriberDisconnect(s) ==
    /\ s \in DOMAIN subscribers
    /\ subscribers[s].state = "open"
    /\ subscribers' = [x \in DOMAIN subscribers \ {s} |-> subscribers[x]]
    /\ UNCHANGED <<registry, queue, channel, event_buffer_size, answers,
                   metrics, events, producerVars, engineVars>>

\* The receivers of assignment_events_tx that exist.
Receivers == {s \in DOMAIN subscribers : subscribers[s].state = "open"}

\* broadcast::Sender::send never waits: it returns Err when no receiver
\* exists and Ok otherwise.
broadcast_send == IF Receivers = {} THEN "Err" ELSE "Ok"

\* ---------------------------------------------------------------------- engine
\* Mutant: the engine takes the first Urgent order of the channel, if any.
EngineRecv_ByPriority ==
    /\ epc = "recv"
    /\ ~rxClosed
    /\ queue # <<>>
    /\ totals.success + totals.error < MaxIterations
    /\ LET urgent == {i \in 1..Len(queue) : queue[i].priority = "Urgent"}
           k == IF urgent = {} THEN 1
                ELSE CHOOSE i \in urgent : \A j \in urgent : i <= j
       IN /\ cur' = queue[k]
          /\ queue' = SubSeq(queue, 1, k - 1) \o SubSeq(queue, k + 1, Len(queue))
    /\ epc' = "dec"
    /\ UNCHANGED <<registry, channel, fanout, answers, metrics, events,
                   producerVars, scanVars, winner, outcome, sent>>

\* order_rx.recv().await yields the oldest order of the channel.
EngineRecv ==
    /\ epc = "recv"
    /\ ~rxClosed
    /\ queue # <<>>
    /\ totals.success + totals.error < MaxIterations
    /\ cur' = Head(queue)
    /\ queue' = Tail(queue)
    /\ epc' = "dec"
    /\ UNCHANGED <<registry, channel, fanout, answers, metrics, events,
                   producerVars, scanVars, winner, outcome, sent>>

\* orders_in_queue.dec(); process_order starts iterating the couriers map.
EngineDec ==
    /\ epc = "dec"
    /\ gauge' = gauge - 1
    /\ epc' = "scan"
    /\ scanTodo' = DOMAIN couriers
    /\ candidates' = {}
    /\ UNCHANGED <<registry, queue, channel, fanout, answers, totals, events,
                   producerVars, cur, winner, outcome, sent>>

\* Mutant: the filter forgets the load.
can_take_order_StatusOnly(courier) == courier.status = "Available"

can_take_order(courier) ==
    courier.status = "Available" /\ courier.current_load < courier.capacity

\* Mutant: the iteration keeps a clone of every courier it visits.
EngineScan_NoFilter(id) ==
    /\ epc = "scan"
    /\ id \in scanTodo
    /\ scanTodo' = scanTodo \ {id}
    /\ candidates' = candidates \cup {couriers[id]}
    /\ UNCHANGED <<registry, queue, channel, fanout, answers, metrics, events,
                   producerVars, epc, cur, winner, outcome, sent>>

\* The iteration visits one entry of the couriers map and keeps a clone of it
\* when it can take the order.
EngineScan(id) ==
    /\ epc = "scan"
    /\ id \in scanTodo
    /\ scanTodo' = scanTodo \ {id}
    /\ candidates' = IF can_take_order(couriers[id])
                     THEN candidates \cup {couriers[id]}
                     ELSE candidates
    /\ UNCHANGED <<registry, queue, channel, fanout, answers, metrics, events,
                   producerVars, epc, cur, winner, outcome, sent>>

\* Mutant: min_by instead of max_by.
BestCandidates_Lowest(cands, order) ==
    {c \in cands : \A d \in cands :
         total_cmp(compute_score(c, order), compute_score(d, order)) <= 0}

\* max_by(total_cmp) over the candidates: a candidate of maximal score (the
\* iteration order, which breaks ties, is unspecified).
BestCandidates(cands, order) ==
    {c \in cands : \A d \in cands :
         total_cmp(compute_score(c, order), compute_score(d, order)) >= 0}

\* The iteration is over.  No candidate: the engine goes to sleep.  Otherwise
\* it scores the candidates and picks the winner.
EngineScanDone ==
    /\ epc = "scan"
    /\ scanTodo = {}
    /\ IF candidates = {}
       THEN /\ epc' = "sleep"
            /\ UNCHANGED winner
       ELSE /\ \E c \in BestCandidates(candidates, cur) :
                  winner' = [id |-> c.id, score |-> compute_score(c, cur)]
            /\ epc' = "commit_order"
    /\ candidates' = {}
    /\ UNCHANGED <<registry, queue, channel, fanout, answers, metrics, events,
                   producerVars, cur, scanTodo, outcome, sent>>

\* Mutant: the engine sends a clone of the order when it wakes and then sends
\* the order itself.
EngineWake_SendsClone ==
    /\ epc = "sleep"
    /\ SendReady
    /\ queue' = Append(queue, cur)
    /\ epc' = "send"
    /\ UNCHANGED <<registry, channel, fanout, answers, metrics, events,
                   producerVars, cur, scanVars, winner, outcome, sent>>

\* sleep(250 ms) is over.
EngineWake ==
    /\ epc = "sleep"
    /\ epc' = "send"
    /\ UNCHANGED <<registry, queue, channel, fanout, answers, metrics, events,
                   producerVars, cur, scanVars, winner, outcome, sent>>

\* Mutant: the re-queue marks the order before it sends it.
EngineSend_Marked ==
    /\ epc = "send"
    /\ SendReady
    /\ queue' = Append(queue, [cur EXCEPT !.status = "InTransit"])
    /\ epc' = "inc"
    /\ UNCHANGED <<registry, channel, fanout, answers, metrics, events,
                   producerVars, cur, scanVars, winner, outcome, sent>>

\* enqueue_order, called by process_order: the send of the same order succeeds.
EngineSend ==
    /\ epc = "send"
    /\ SendReady
    /\ queue' = Append(queue, cur)
    /\ epc' = "inc"
    /\ UNCHANGED <<registry, channel, fanout, answers, metrics, events,
                   producerVars, cur, scanVars, winner, outcome, sent>>

\* enqueue_order, called by process_order: the send fails and `?` returns the
\* error from process_order.  The engine owns order_rx, so the channel is never
\* closed while the engine runs: this step is no part of the next-state
\* relation.
EngineSendFail ==
    /\ epc = "send"
    /\ SendFails
    /\ outcome' = "error"
    /\ UNCHANGED sent
    /\ epc' = "record"
    /\ UNCHANGED <<registry, queue, channel, fanout, answers, metrics, events,
                   producerVars, cur, scanVars, winner>>

\* Mutant: the re-queue forgets the gauge.
EngineInc_NoGauge ==
    /\ epc = "inc"
    /\ outcome' = "success"
    /\ UNCHANGED sent
    /\ epc' = "record"
    /\ UNCHANGED <<registry, queue, channel, fanout, answers, metrics, events,
                   producerVars, cur, scanVars, winner>>

\* Mutant: a re-queue goes straight back to recv and is not counted.
EngineInc_NotRecorded ==
    /\ epc = "inc"
    /\ gauge' = gauge + 1
    /\ epc' = "recv"
    /\ cur' = NoOrder
    /\ UNCHANGED <<registry, queue, channel, fanout, answers, totals, events,
                   producerVars, scanVars, winner, outcome, sent>>

\* enqueue_order, called by process_order: orders_in_queue.inc(); Ok(()).
EngineInc ==
    /\ epc = "inc"
    /\ gauge' = gauge + 1
    /\ outcome' = "success"
    /\ UNCHANGED sent
    /\ epc' = "record"
    /\ UNCHANGED <<registry, queue, channel, fanout, answers, totals, events,
                   producerVars, cur, scanVars, winner>>

\* Mutant: the commit leaves the order record for later.
EngineCommitOrder_Skipped ==
    /\ epc = "commit_order"
    /\ epc' = "commit_courier"
    /\ UNCHANGED <<registry, queue, channel, fanout, answers, metrics, events,
                   producerVars, cur, scanVars, winner, outcome, sent>>

\* Mutant: the commit sets the status and forgets the courier.
EngineCommitOrder_StatusOnly ==
    /\ epc = "commit_order"
    /\ orders' = Put(orders, cur.id, [cur EXCEPT !.status = "Assigned"])
    /\ epc' = "commit_courier"
    /\ UNCHANGED <<couriers, assignments, queue, channel, fanout, answers,
                   metrics, events, producerVars, cur, scanVars, winner,
                   outcome, sent>>

\* Commit, first step: the order record is overwritten.
EngineCommitOrder ==
    /\ epc = "commit_order"
    /\ orders' = Put(orders, cur.id,
                     [cur EXCEPT !.status = "Assigned",
                                 !.assigned_courier = winner.id])
    /\ epc' = "commit_courier"
    /\ UNCHANGED <<couriers, assignments, queue, channel, fanout, answers,
                   metrics, events, producerVars, cur, scanVars, winner,
                   outcome, sent>>

\* Mutant: the commit flips the status and forgets the load.
EngineCommitCourier_NoIncrement ==
    /\ epc = "commit_courier"
    /\ IF winner.id \in DOMAIN couriers
       THEN couriers' = [couriers EXCEPT
                ![winner.id].status =
                    IF couriers[winner.id].current_load + 1
                           >= couriers[winner.id].capacity THEN "Busy" ELSE @]
       ELSE UNCHANGED couriers
    /\ epc' = "commit_assignment"
    /\ UNCHANGED <<orders, assignments, queue, channel, fanout, answers,
                   metrics, events, producerVars, cur, scanVars, winner,
                   outcome, sent>>

\* Mutant: the commit counts the order and leaves the status alone.
EngineCommitCourier_NeverBusy ==
    /\ epc = "commit_courier"
    /\ IF winner.id \in DOMAIN couriers
       THEN couriers' = [couriers EXCEPT
                ![winner.id].current_load = Min(@ + 1, 255)]
       ELSE UNCHANGED couriers
    /\ epc' = "commit_assignment"
    /\ UNCHANGED <<orders, assignments, queue, channel, fanout, answers,
                   metrics, events, producerVars, cur, scanVars, winner,
                   outcome, sent>>

\* Commit, second step: the winner's entry is mutated under its lock.
EngineCommitCourier ==
    /\ epc = "commit_courier"
    /\ IF winner.id \in DOMAIN couriers
       THEN LET load == Min(couriers[winner.id].current_load + 1, 255)
            IN couriers' = [couriers EXCEPT
                   ![winner.id].current_load = load,
                   ![winner.id].status =
                       IF load >= couriers[winner.id].capacity THEN "Busy" ELSE @]
       ELSE UNCHANGED couriers
    /\ epc' = "commit_assignment"
    /\ UNCHANGED <<orders, assignments, queue, channel, fanout, answers,
                   metrics, events, producerVars, cur, scanVars, winner,
                   outcome, sent>>

\* Mutant: the two ids of the assignment record are swapped.
EngineCommitAssignment_Swapped ==
    /\ epc = "commit_assignment"
    /\ LET id == Cardinality(DOMAIN assignments) + 1
       IN assignments' = Put(assignments, id,
              [id |-> id, order_id |-> winner.id, courier_id |-> cur.id,
               score |-> winner.score])
    /\ epc' = "publish"
    /\ UNCHANGED <<couriers, orders, queue, channel, fanout, answers, metrics,
                   events, producerVars, cur, scanVars, winner, outcome, sent>>

\* Commit, third step: the assignment record is inserted under a fresh id.
EngineCommitAssignment ==
    /\ epc = "commit_assignment"
    /\ LET id == Cardinality(DOMAIN assignments) + 1
       IN assignments' = Put(assignments, id,
              [id |-> id, order_id |-> cur.id, courier_id |-> winner.id,
               score |-> winner.score])
    /\ epc' = "publish"
    /\ UNCHANGED <<couriers, orders, queue, channel, fanout, answers, metrics,
                   events, producerVars, cur, scanVars, winner, outcome, sent>>

\* Mutant: after the commit the engine falls through to the re-queue.
EnginePublish_FallThrough ==
    /\ epc = "publish"
    /\ events' = Append(events, assignments[Cardinality(DOMAIN assignments)])
    /\ sent' = broadcast_send
    /\ epc' = "sleep"
    /\ UNCHANGED <<registry, queue, channel, fanout, answers, metrics,
                   producerVars, cur, scanVars, winner, outcome>>

\* Mutant: the broadcaster hands out the newest event first.
EnginePublish_Prepend ==
    /\ epc = "publish"
    /\ events' = <<assignments[Cardinality(DOMAIN assignments)]>> \o events
    /\ sent' = broadcast_send
    /\ outcome' = "success"
    /\ epc' = "record"
    /\ UNCHANGED <<registry, queue, channel, fanout, answers, metrics,
                   producerVars, cur, scanVars, winner>>

\* Mutant: the broadcaster waits until every open receiver has room.
EnginePublish_WaitsForReceivers ==
    /\ epc = "publish"
    /\ \A s \in DOMAIN subscribers :
           subscribers[s].state = "open"
               => Len(events) - subscribers[s].next < RingCapacity
    /\ events' = Append(events, assignments[Cardinality(DOMAIN assignments)])
    /\ sent' = broadcast_send
    /\ outcome' = "success"
    /\ epc' = "record"
    /\ UNCHANGED <<registry, queue, channel, fanout, answers, metrics,
                   producerVars, cur, scanVars, winner>>

\* Mutant: the error of the send is returned from process_order.
EnginePublish_ReturnsSendError ==
    /\ epc = "publish"
    /\ events' = Append(events, assignments[Cardinality(DOMAIN assignments)])
    /\ sent' = broadcast_send
    /\ outcome' = IF broadcast_send = "Err" THEN "error" ELSE "success"
    /\ epc' = "record"
    /\ UNCHANGED <<registry, queue, channel, fanout, answers, metrics,
                   producerVars, cur, scanVars, winner>>

\* Commit, last step: the assignment is sent to the broadcaster; Ok(()).
EnginePublish ==
    /\ epc = "publish"
    /\ events' = Append(events, assignments[Cardinality(DOMAIN assignments)])
    /\ sent' = broadcast_send
    /\ outcome' = "success"
    /\ epc' = "record"
    /\ UNCHANGED <<registry, queue, channel, fanout, answers, metrics,
                   producerVars, cur, scanVars, winner>>

\* The loop records the outcome and goes back to recv.
EngineRecord ==
    /\ epc = "record"
    /\ totals' = [totals EXCEPT ![outcome] = @ + 1]
    /\ epc' = "recv"
    /\ cur' = NoOrder
    /\ winner' = NoWinner
    /\ outcome' = "none"
    /\ sent' = "none"
    /\ UNCHANGED <<registry, queue, channel, fanout, answers, gauge, events,
                   producerVars, scanVars>>

\* The runtime shuts down when main returns: the detached engine task is
\* dropped at the await it is suspended in, and order_rx with it, which closes
\* the channel and drops the orders it holds.
RuntimeShutdown ==
    /\ epc \in {"recv", "sleep", "send"}
    /\ epc' = "dropped"
    /\ cur' = NoOrder
    /\ rxClosed' = TRUE
    /\ queue' = <<>>
    /\ UNCHANGED <<order_queue_size, txIngress, fanout, answers>>
    /\ UNCHANGED <<registry, metrics, events, producerVars, scanVars, winner,
                   outcome, sent>>

\* The tasks that hold a clone of Arc<AppState>, and with it the Sender
\* order_tx: ingress, and the engine task itself (its parameter state) for as
\* long as it exists.
SenderHolders ==
    (IF txIngress THEN {"ingress"} ELSE {})
        \cup (IF epc \notin {"dropped", "stopped"} THEN {"engine"} ELSE {})

\* order_rx.recv().await yields None: the channel is empty and every Sender
\* is gone.  The loop ends and run_assignment_engine returns.  The engine
\* holds a Sender itself, so the guard is never true while it waits in recv:
\* this step is no part of the next-state relation.
EngineRecvClosed ==
    /\ epc = "recv"
    /\ queue = <<>>
    /\ SenderHolders = {}
    /\ epc' = "stopped"
    /\ UNCHANGED <<registry, queue, channel, fanout, answers, metrics, events,
                   producerVars, cur, scanVars, winner, outcome, sent>>

\* Graceful shutdown: axum::serve has served the requests in flight and
\* returns; the router and its handlers are dropped.
IngressStop ==
    /\ txIngress
    /\ InFlight = 0
    /\ txIngress' = FALSE
    /\ UNCHANGED <<registry, queue, order_queue_size, rxClosed, fanout, answers,
                   metrics, events, producerVars, engineVars>>

\* main returns after axum::serve has returned, and the runtime shuts down.
ProcessExit == ~txIngress /\ RuntimeShutdown

\* ------------------------------------------------------------------------ Next
\* The requests ingress serves, with couriers located in CLocs, orders of the
\* priorities Prios and at most n create_order calls in flight.
Ingress(n, CLocs, Prios) ==
    \/ \E cap \in Capacities, r \in Ratings, l \in CLocs, m \in BOOLEAN :
           CreateCourier(<<"a">>, cap, r, l, m)
    \/ \E id \in 1..MaxCouriers, s \in CourierStatus : UpdateCourierStatus(id, s)
    \/ \E l \in Pickups, pr \in Prios : InFlight < n /\ CreateOrderInsert(l, pr)
    \/ \E o \in sending : ProducerSend(o)
    \/ \E o \in sending : ProducerSendFail(o)
    \/ ProducerInc

LocationPatch ==
    \E id \in 1..MaxCouriers, l \in Locations : UpdateCourierLocation(id, l)

Engine ==
    \/ EngineRecv
    \/ EngineDec
    \/ \E id \in 1..MaxCouriers : EngineScan(id)
    \/ EngineScanDone
    \/ EngineWake
    \/ EngineSend
    \/ EngineInc
    \/ EngineCommitOrder
    \/ EngineCommitCourier
    \/ EngineCommitAssignment
    \/ EnginePublish
    \/ EngineRecord

\* Concurrent producers and orders of several priorities; couriers stay where
\* they were created.
Next == Ingress(NumProducers, {0}, Priorities) \/ Engine \/ RuntimeShutdown

Spec == Init /\ [][Next]_vars

\* Couriers move: location patches, one create_order call at a time.
NextGeo == Ingress(1, Locations, {"Low"}) \/ LocationPatch \/ Engine \/ RuntimeShutdown

SpecGeo == Init /\ [][NextGeo]_vars

\* The process keeps running: couriers are added and stay as they are, orders
\* are submitted by concurrent handlers, and the runtime schedules every task
\* that can take a step (the engine task, and every handler whose send or
\* gauge increment can complete).
ProducerSteps == (\E o \in sending : ProducerSend(o)) \/ ProducerInc

NextLive ==
    \/ \E cap \in Capacities, r \in Ratings, m \in BOOLEAN : CreateCourier(<<"a">>, cap, r, 0, m)
    \/ \E l \in Pickups : CreateOrderInsert(l, "Low")
    \/ ProducerSteps
    \/ Engine

SpecLive ==
    /\ Init
    /\ [][NextLive]_vars
    /\ WF_vars(Engine)
    /\ WF_vars(ProducerSteps)

\* Subscribers come and go while orders are assigned: one create_order call at
\* a time, couriers that stay as they are created.
Subscribers ==
    \/ \E k \in SubscriberKinds : Subscribe(k)
    \/ \E s \in 1..MaxSubscribers : SubscriberRecv(s)
    \/ \E s \in 1..MaxSubscribers : SubscriberDisconnect(s)

NextEvents ==
    \/ \E cap \in Capacities, r \in Ratings : CreateCourier(<<"a">>, cap, r, 0, FALSE)
    \/ \E l \in Pickups : InFlight < 1 /\ CreateOrderInsert(l, "Low")
    \/ ProducerSteps
    \/ Engine
    \/ Subscribers

SpecEvents == Init /\ [][NextEvents]_vars

\* Requests of any shape: courier creations with valid and invalid names and
\* capacities, while orders are submitted and assigned.
NextApi ==
    \/ \E n \in Names, cap \in 0..MaxCapacity, r \in Ratings, m \in BOOLEAN :
           create_courier(n, cap, r, 0, m)
    \/ \E l \in Pickups : InFlight < 1 /\ CreateOrderInsert(l, "Low")
    \/ ProducerSteps
    \/ Engine

SpecApi == Init /\ [][NextApi]_vars

\* Patches of known and unknown couriers while orders are assigned.
NextPatch ==
    \/ \E cap \in Capacities, r \in Ratings, m \in BOOLEAN :
           CreateCourier(<<"a">>, cap, r, 0, m)
    \/ \E id \in 1..MaxCouriers, st \in CourierStatus : update_courier_status(id, st)
    \/ \E id \in 1..MaxCouriers, l \in Locations : update_courier_location(id, l)
    \/ \E l \in Pickups : InFlight < 1 /\ CreateOrderInsert(l, "Low")
    \/ ProducerSteps
    \/ Engine

SpecPatch == Init /\ [][NextPatch]_vars

\* The process serves requests, is told to stop, and exits.
NextShutdown ==
    \/ \E cap \in Capacities, r \in Ratings, m \in BOOLEAN :
           txIngress /\ CreateCourier(<<"a">>, cap, r, 0, m)
    \/ \E l \in Pickups : txIngress /\ CreateOrderInsert(l, "Low")
    \/ ProducerSteps
    \/ IngressStop
    \/ Engine
    \/ ProcessExit

SpecShutdown ==
    /\ Init
    /\ [][NextShutdown]_vars
    /\ WF_vars(Engine)
    /\ WF_vars(ProducerSteps)
    /\ WF_vars(ProcessExit)

\* Couriers of any rating a gRPC request can carry, while orders of several
\* priorities are submitted and assigned.
NextScoring ==
    \/ \E cap \in Capacities, r \in RequestRatings :
           CreateCourier(<<"a">>, cap, r, 0, FALSE)
    \/ \E pr \in Priorities : InFlight < 1 /\ CreateOrderInsert(0, pr)
    \/ ProducerSteps
    \/ Engine

SpecScoring == Init /\ [][NextScoring]_vars

\* ====================================================================== claims

\* The engine stands between two steps of a commit.
EngineMidCommit == epc \in {"commit_courier", "commit_assignment", "publish"}

\* enqueue_order calls that have sent and not yet incremented the gauge, and
\* receives whose decrement is still to come.
PendingIncs == incPending + (IF epc = "inc" THEN 1 ELSE 0)
PendingDecs == IF epc = "dec" THEN 1 ELSE 0

\* C1: whatever ingress (courier creations, status and location patches, order
\* submissions) and the engine have done, every courier of the registry has
\* current_load <= capacity.
C1_LoadWithinCapacity ==
    \A c \in DOMAIN couriers : couriers[c].current_load <= couriers[c].capacity

\* A commit has filled a courier, ingress has patched it back to Available and
\* moved it, and the engine has since found no courier for the next order.
C1_Witness ==
    /\ epc = "sleep"
    /\ totals.success >= 1
    /\ \E c \in DOMAIN couriers :
           /\ couriers[c].current_load = couriers[c].capacity
           /\ couriers[c].status = "Available"
           /\ couriers[c].location = 1

\* C2: no two assignment records have the same order_id, however many times
\* the order was re-queued.
C2_OneAssignmentPerOrder ==
    \A a, b \in DOMAIN assignments :
        assignments[a].order_id = assignments[b].order_id => a = b

\* The only order was re-queued at least once and then assigned; a second
\* iteration has completed with it.
C2_Witness ==
    /\ Cardinality(DOMAIN orders) = 1
    /\ Cardinality(DOMAIN assignments) = 1
    /\ totals.success >= 2

\* C3: every order record of the registry is Pending if and only if it names
\* no courier.
C3_PendingIffNoCourier ==
    \A o \in DOMAIN orders :
        (orders[o].status = "Pending") <=> (orders[o].assigned_courier = None)

\* One order is Assigned and names a courier while another is still Pending.
C3_Witness ==
    \E o, q \in DOMAIN orders :
        /\ orders[o].status = "Assigned"
        /\ orders[o].assigned_courier \in DOMAIN couriers
        /\ orders[q].status = "Pending"
        /\ orders[q].assigned_courier = None

AssignmentRefersToRegistry(a) ==
    /\ a.order_id \in DOMAIN orders
    /\ orders[a.order_id].status = "Assigned"
    /\ orders[a.order_id].assigned_courier = a.courier_id
    /\ a.courier_id \in DOMAIN couriers

\* C4: every assignment record names an order of the registry that is Assigned
\* to the record's courier, and a courier of the registry; and no step changes
\* or removes an assignment record.
C4_AssignmentsReferAndStay ==
    /\ [](\A a \in DOMAIN assignments : AssignmentRefersToRegistry(assignments[a]))
    /\ [][\A a \in DOMAIN assignments :
             a \in DOMAIN assignments' /\ assignments'[a] = assignments[a]]_vars

\* Two assignment records exist, and ingress has since patched the courier of
\* the first one to Offline.
C4_Witness ==
    /\ Cardinality(DOMAIN assignments) = 2
    /\ couriers[assignments[1].courier_id].status = "Offline"

\* C5: whenever the engine is not in the middle of a commit, the loads of all
\* couriers add up to the number of assignment records.
C5_LoadSumIsAssignmentCount ==
    ~EngineMidCommit =>
        SumLoad(couriers, DOMAIN couriers) = Cardinality(DOMAIN assignments)

\* The engine is back at recv after two commits that went to two couriers, one
\* of which ingress has patched to Offline.
C5_Witness ==
    /\ epc = "recv"
    /\ Cardinality(DOMAIN assignments) = 2
    /\ \E c, d \in DOMAIN couriers :
           /\ couriers[c].current_load = 1
           /\ couriers[d].current_load = 1
           /\ c # d
           /\ couriers[d].status = "Offline"

\* C6: the orders_in_queue gauge is never negative.
C6_GaugeNeverNegative == gauge >= 0

\* C7: while the channel exists, the gauge is the number of queued orders, less
\* one for every enqueue_order call between its send and its increment, plus
\* one for a receive whose decrement is to come (so the gauge is the queue
\* length whenever nobody is mid-step); and a send that fails leaves the gauge
\* alone and leaves no increment to come.
C7_GaugePairsWithQueue ==
    /\ [](~rxClosed => gauge + PendingIncs - PendingDecs = Len(queue))
    /\ [][(sending' # sending /\ sending' \subseteq sending /\ Len(queue') <= Len(queue))
              => (gauge' = gauge /\ incPending' = incPending)]_vars

\* Nobody is mid-step, the engine has received an order and re-queued it, and
\* the gauge reads the two orders the queue holds.
C7_Witness ==
    /\ ~rxClosed
    /\ PendingIncs = 0
    /\ PendingDecs = 0
    /\ totals.success >= 1
    /\ assignments = <<>>
    /\ gauge = 2
    /\ Len(queue) = 2

\* C8: the queue never holds more than order_queue_size orders; while it is
\* full and the channel exists, no sender completes, fails or loses its order;
\* and a send fails only when the receiver is gone.
C8_BoundedQueueBackPressure ==
    /\ [](Len(queue) <= order_queue_size)
    /\ [][(Len(queue) = order_queue_size /\ ~rxClosed)
              => /\ sending \subseteq sending'
                 /\ incPending' <= incPending
                 /\ (epc = "send" => /\ epc' \in {"send", "dropped"}
                                     /\ (epc' = "send" => cur' = cur))]_vars
    /\ [][(sending' # sending /\ sending' \subseteq sending /\ Len(queue') <= Len(queue))
              => rxClosed]_vars

\* The queue is full and a handler waits in send with its order.
C8_Witness ==
    /\ ~rxClosed
    /\ Len(queue) = order_queue_size
    /\ sending # {}

\* C9: every receive takes the order whose send completed first among the
\* queued ones, whatever the priorities, and every send (a re-queue too) puts
\* its order behind all the queued ones.
C9_FifoProcessing ==
    [][/\ (epc = "recv" /\ epc' = "dec")
            => (cur' = Head(queue) /\ queue' = Tail(queue))
       /\ (Len(queue') > Len(queue))
            => (Len(queue') = Len(queue) + 1
                /\ SubSeq(queue', 1, Len(queue)) = queue)
       /\ (epc = "send" /\ epc' = "inc")
            => queue' = Append(queue, cur)]_vars

\* The engine re-queued an Urgent order behind a Low one that was in the queue
\* already, and has now received the Low one.
C9_Witness ==
    /\ epc = "dec"
    /\ totals.success = 1
    /\ assignments = <<>>
    /\ cur.priority = "Low"
    /\ Len(queue) = 1
    /\ queue[1].priority = "Urgent"
    /\ queue[1].id # cur.id

\* C10: an order record changes only from Pending to Assigned; a re-queue
\* leaves the record and the queued order Pending; an Assigned record never
\* changes again.
C10_PendingToAssignedOnly ==
    [][/\ \A o \in DOMAIN orders :
              /\ o \in DOMAIN orders'
              /\ orders'[o] # orders[o]
                    => /\ orders[o].status = "Pending"
                       /\ orders'[o] = [orders[o] EXCEPT
                              !.status = "Assigned",
                              !.assigned_courier = orders'[o].assigned_courier]
                       /\ orders'[o].assigned_courier \in DOMAIN couriers
       /\ (epc = "send" /\ epc' = "inc")
            => /\ orders' = orders
               /\ orders[cur.id].status = "Pending"
               /\ queue'[Len(queue')].status = "Pending"]_vars

\* Order 1 is Assigned and stays so while the engine, which found no courier
\* for order 2, is about to re-queue it: order 2 is still Pending.
C10_Witness ==
    /\ epc = "send"
    /\ cur.id = 2
    /\ orders[2].status = "Pending"
    /\ orders[1].status = "Assigned"

\* The engine is in the no-candidate branch of process_order.
EngineRequeueing == epc \in {"sleep", "send", "inc"}

\* C11: an iteration that finds no eligible courier goes through sleep, one
\* send of the order it received (unchanged, Pending, as the registry holds
\* it) and the gauge increment, with no other engine step in between; none of
\* these steps touches an order, courier or assignment record or publishes an
\* event; and the iteration ends with outcome success, which is what the loop
\* records.
C11_RequeueOnceAsSuccess ==
    [][/\ (epc = "scan" /\ epc' = "sleep") => candidates = {}
       /\ (EngineRequeueing /\ epc' # epc /\ epc' # "dropped")
            => /\ registry' = registry
               /\ events' = events
               /\ cur' = cur
               /\ cur.status = "Pending"
               /\ orders[cur.id] = cur
               /\ totals' = totals
       /\ (epc = "sleep" /\ epc' # epc /\ epc' # "dropped")
            => (epc' = "send" /\ queue' = queue)
       /\ (epc = "send" /\ epc' # epc /\ epc' # "dropped")
            => (epc' = "inc" /\ queue' = Append(queue, cur))
       /\ (epc = "inc" /\ epc' # epc)
            => (epc' = "record" /\ queue' = queue /\ outcome' = "success")
       /\ (epc = "record" /\ epc' # epc)
            => /\ epc' = "recv"
               /\ totals' = [totals EXCEPT ![outcome] = @ + 1]
               /\ outcome = "success"]_vars

\* The loop is about to record an iteration that re-queued the only order: the
\* order is last in the queue, Pending, and nothing was assigned or published.
C11_Witness ==
    /\ epc = "record"
    /\ outcome = "success"
    /\ assignments = <<>>
    /\ events = <<>>
    /\ couriers # <<>>
    /\ queue # <<>>
    /\ queue[Len(queue)] = cur
    /\ orders[cur.id].status = "Pending"

\* Some courier of the registry can take an order.
SomeCourierEligible == \E c \in DOMAIN couriers : can_take_order(couriers[c])

\* The engine has iterations left to run.
EngineUnderCap == totals.success + totals.error < MaxIterations

\* C12: with every task scheduled fairly, if from some point on there is
\* always a courier that can take an order (and the engine always has
\* iterations left), then every order of the registry is eventually Assigned,
\* however many handlers submit at the same time.
C12_EventuallyAssigned ==
    \A o \in 1..MaxOrders :
        ([]EngineUnderCap /\ <>[]SomeCourierEligible)
            => [](o \in DOMAIN orders
                    => <>(o \in DOMAIN orders /\ orders[o].status = "Assigned"))

\* C13: the commit step that raises the winner's current_load leaves it Busy
\* when the load has reached the capacity; the scan keeps only couriers that
\* are Available with current_load < capacity; and the courier an engine
\* commit is about to load is never a full one, so a courier filled by a
\* commit takes no later order.
C13_FullCourierBusyAndIneligible ==
    /\ [][(epc = "commit_courier" /\ epc' = "commit_assignment"
              /\ winner.id \in DOMAIN couriers)
            => /\ couriers'[winner.id].current_load
                      = couriers[winner.id].current_load + 1
               /\ couriers'[winner.id].current_load >= couriers'[winner.id].capacity
                      => couriers'[winner.id].status = "Busy"]_vars
    /\ [][\A c \in candidates' \ candidates :
              c.status = "Available" /\ c.current_load < c.capacity]_vars
    /\ [](epc \in {"commit_order", "commit_courier"}
            => /\ winner.id \in DOMAIN couriers
               /\ couriers[winner.id].current_load < couriers[winner.id].capacity)

\* Courier 1, of capacity 1, took order 1 and is Busy; order 2 found no
\* courier and was re-queued; a second courier was added and took it.
C13_Witness ==
    /\ DOMAIN couriers = {1, 2}
    /\ couriers[1].capacity = 1
    /\ couriers[1].current_load = 1
    /\ couriers[1].status = "Busy"
    /\ DOMAIN assignments = {1, 2}
    /\ assignments[1].courier_id = 1
    /\ assignments[2].courier_id = 2
    /\ assignments[2].order_id = 2
    /\ totals.success = 3

\* process_order has committed and returned; the loop is about to record it.
EngineCommitDone == epc = "record" /\ winner # NoWinner

\* C14: whenever an engine commit has just completed, no courier of the
\* registry with current_load = capacity is Available, whatever status
\* patches ingress has applied in between.
C14_FullNeverAvailable ==
    EngineCommitDone =>
        \A c \in DOMAIN couriers :
            couriers[c].current_load = couriers[c].capacity
                => couriers[c].status # "Available"

\* The position of the assignment with id a in the sequence seq of ids (0
\* when it is not there).
PositionIn(seq, a) ==
    IF \E i \in 1..Len(seq) : seq[i] = a
    THEN CHOOSE i \in 1..Len(seq) : seq[i] = a
    ELSE 0

\* C15: the i-th event published is the assignment of the i-th commit, and
\* any two events that two subscribers have both been delivered were
\* delivered to both in the order of their commits, each once.
C15_EventsInCommitOrder ==
    /\ \A i \in 1..Len(events) :
           i \in DOMAIN assignments /\ events[i] = assignments[i]
    /\ \A s, t \in DOMAIN subscribers :
           \A i, j \in 1..Len(subscribers[s].delivered) :
               LET a == subscribers[s].delivered[i]
                   b == subscribers[s].delivered[j]
               IN /\ i < j => a < b
                  /\ (i < j /\ PositionIn(subscribers[t].delivered, a) > 0
                             /\ PositionIn(subscribers[t].delivered, b) > 0)
                        => PositionIn(subscribers[t].delivered, a)
                               < PositionIn(subscribers[t].delivered, b)

\* A WebSocket session and a gRPC stream have both been delivered the events
\* of the two commits.
C15_Witness ==
    \E s, t \in DOMAIN subscribers :
        /\ subscribers[s].kind = "ws"
        /\ subscribers[t].kind = "grpc"
        /\ subscribers[s].delivered = <<1, 2>>
        /\ subscribers[t].delivered = <<1, 2>>
        /\ assignments[1].order_id # assignments[2].order_id

\* C16: every event a receiver has been delivered was published after the
\* subscribe call that created the receiver: its place in the sequence of
\* published events is beyond the events that call found published.
C16_OnlyLaterEvents ==
    \A s \in DOMAIN subscribers :
        \A i \in 1..Len(subscribers[s].delivered) :
            \E k \in (subscribers[s].since + 1)..Len(events) :
                events[k].id = subscribers[s].delivered[i]

\* A receiver created after the first event was published has been delivered
\* the second one, and nothing else.
C16_Witness ==
    \E s \in DOMAIN subscribers :
        /\ subscribers[s].since = 1
        /\ subscribers[s].delivered = <<2>>
        /\ Len(events) = 2

\* C17: when a subscriber that has lagged takes its next turn, its stream
\* stays open, it is delivered nothing it was already delivered, and its
\* cursor stands at the oldest event the channel still keeps, so that the
\* following turns deliver the events from there on.
C17_LaggingKeepsStream ==
    [][\A s \in DOMAIN subscribers :
          (/\ subscribers[s].state = "open"
           /\ Lagged(subscribers[s].next)
           /\ s \in DOMAIN subscribers'
           /\ subscribers'[s] # subscribers[s])
            => /\ subscribers'[s].state = "open"
               /\ subscribers'[s].next = Len(events) - RingCapacity
               /\ subscribers'[s].delivered = subscribers[s].delivered]_vars

\* C18: whenever the engine stands before the publish of a commit, the
\* publish can be taken at once, whatever receivers exist and wherever their
\* cursors are; it leaves every receiver as it is and takes the engine to the
\* end of the iteration, from where the loop goes back to recv.
C18_PublishNeverSuspends ==
    /\ [](epc = "publish" => ENABLED EnginePublish)
    /\ [](epc = "record" => ENABLED EngineRecord)
    /\ [][(epc = "publish" /\ epc' # epc)
            => /\ epc' = "record"
               /\ outcome' = "success"
               /\ events' = Append(events, assignments[Cardinality(DOMAIN assignments)])
               /\ subscribers' = subscribers]_vars

\* The second commit has been published although an open WebSocket session
\* and an open gRPC stream had not read the first event, which filled the
\* ring: both receivers have lagged.
C18_Witness ==
    /\ epc = "record"
    /\ Len(events) = 2
    /\ \E s, t \in DOMAIN subscribers :
           /\ subscribers[s].kind = "ws"
           /\ subscribers[t].kind = "grpc"
           /\ subscribers[s].state = "open"
           /\ subscribers[t].state = "open"
           /\ Lagged(subscribers[s].next)
           /\ Lagged(subscribers[t].next)

\* C19: an iteration of the engine loop starts with a receive and ends when
\* the loop is back at recv.  Every step that ends an iteration adds one to
\* exactly one of assignments_total{success} and assignments_total{error},
\* an iteration that only re-queued its order included, and no other step
\* changes either counter; so the two counters add up to the number of
\* iterations completed.
C19_OneCountPerIteration ==
    [][/\ (epc # "recv" /\ epc' = "recv")
            => \/ /\ totals'.success = totals.success + 1
                  /\ totals'.error = totals.error
               \/ /\ totals'.success = totals.success
                  /\ totals'.error = totals.error + 1
       /\ totals' # totals => (epc # "recv" /\ epc' = "recv")
       /\ (epc = "recv" /\ epc' # epc) => epc' \in {"dec", "dropped"}]_vars

\* Three iterations have completed, two that re-queued the order and one that
\* assigned it, and the counters add up to three.
C19_Witness ==
    /\ epc = "recv"
    /\ totals.success + totals.error = 3
    /\ Cardinality(DOMAIN assignments) = 1
    /\ Cardinality(DOMAIN orders) = 1

\* C20: a step that answers a request with BadRequest leaves the couriers,
\* orders and assignments registries, the queue and the gauge as they are;
\* and no courier of the registry has a name without a non-whitespace
\* character or a capacity of 0, so no request that fails validation was
\* served in any other way.
C20_RejectedRequestChangesNothing ==
    /\ [][rejected' # rejected
            => /\ rejected' = rejected + 1
               /\ UNCHANGED <<couriers, orders, assignments, queue, gauge>>]_vars
    /\ [](\A c \in DOMAIN couriers :
             /\ couriers[c].capacity > 0
             /\ \E i \in 1..Len(couriers[c].name) :
                    ~IsWhitespace(couriers[c].name[i]))

\* Two requests were refused while a courier exists, whose name was accepted
\* with its leading blank, and an order waits in the queue.
C20_Witness ==
    /\ rejected = 2
    /\ DOMAIN couriers = {1}
    /\ couriers[1].name = <<" ", "a">>
    /\ Len(queue) = 1
    /\ gauge = 1

\* A step of ingress: the engine task stays where it is.
IngressStep == UNCHANGED <<epc, cur, winner, outcome, sent>>

\* C21: no step changes the capacity of a courier or removes a courier; the
\* only step that changes a current_load is the courier step of an engine
\* commit, which adds one to the load of the winner; a step of ingress that
\* changes a courier of the registry changes one courier, and of it either
\* the status alone or the location alone; and a step that answers NotFound
\* changes nothing in the registry, the queue or the metrics.  (updated_at,
\* which both patches also set, is a timestamp and not part of the model.)
C21_IngressLeavesLoadAlone ==
    [][/\ \A c \in DOMAIN couriers :
              /\ c \in DOMAIN couriers'
              /\ couriers'[c].capacity = couriers[c].capacity
              /\ couriers'[c].current_load # couriers[c].current_load
                    => /\ epc = "commit_courier" /\ epc' = "commit_assignment"
                       /\ c = winner.id
                       /\ couriers'[c].current_load = couriers[c].current_load + 1
       /\ (IngressStep /\ DOMAIN couriers' = DOMAIN couriers /\ couriers' # couriers)
            => \E c \in DOMAIN couriers :
                   /\ \A d \in DOMAIN couriers \ {c} : couriers'[d] = couriers[d]
                   /\ \/ couriers'[c] = [couriers[c] EXCEPT
                                              !.status = couriers'[c].status]
                      \/ couriers'[c] = [couriers[c] EXCEPT
                                              !.location = couriers'[c].location]
       /\ not_found' # not_found
            => /\ not_found' = not_found + 1
               /\ UNCHANGED <<couriers, orders, assignments, queue, gauge, totals,
                              events>>]_vars

\* A courier carries an order, ingress has since taken it Offline and moved
\* it, and a patch of an unknown courier was answered NotFound.
C21_Witness ==
    /\ not_found = 1
    /\ \E c \in DOMAIN couriers :
           /\ couriers[c].current_load = 1
           /\ couriers[c].status = "Offline"
           /\ couriers[c].location = 1

\* C22: with no courier registered and exactly one order submitted (its
\* create_order call has returned), the orders_in_queue gauge reads 1 for as
\* long as that order is Pending.
C22_GaugeCountsWaitingOrder ==
    (/\ DOMAIN couriers = {}
     /\ DOMAIN orders = {1}
     /\ InFlight = 0
     /\ orders[1].status = "Pending")
        => gauge = 1

\* C23: once ingress has stopped and holds no producer endpoint, the engine's
\* receive reports the channel closed and the loop ends; and the engine task
\* never ends in another way.
C23_EngineStopsWhenQueueCloses ==
    /\ (~txIngress) ~> (epc = "stopped")
    /\ [](epc # "dropped")

\* Comparison of f64 values as == and > compare them: NaN is not equal to,
\* and not greater than, anything.
f64_eq(a, b) == a # NaN /\ b # NaN /\ a = b
f64_gt(a, b) == a # NaN /\ b # NaN /\ a > b

\* The ratings a stored courier can have.
StoredRatings == {f64_clamp(r, 0, 5) : r \in RequestRatings \cup Ratings}

\* The pickups and priorities of orders for which compute_score is strictly
\* monotone in the load: of two couriers of equal capacity (up to
\* MaxScoreCapacity), location and rating, with loads within the capacity,
\* the one with the smaller current_load has the strictly larger score.
ScoreMonotoneInLoad ==
    UNION {
        IF \A cap \in 1..MaxScoreCapacity, loc \in Locations, r \in StoredRatings :
               \A l1 \in 0..cap : \A l2 \in (l1 + 1)..cap :
                   LET c1 == [location |-> loc, capacity |-> cap, rating |-> r,
                              current_load |-> l1]
                       c2 == [c1 EXCEPT !.current_load = l2]
                   IN f64_eq(c1.rating, c2.rating)
                          => f64_gt(compute_score(c1, o), compute_score(c2, o))
        THEN {o} ELSE {} :
        o \in [pickup : Pickups, priority : {"Low", "Normal", "High", "Urgent"}]}

\* C24: for every order submitted, and every two couriers of equal capacity,
\* location and rating, the courier with the smaller current_load has the
\* strictly larger compute_score.
C24_ScoreMonotoneInLoad ==
    \A o \in DOMAIN orders :
        [pickup |-> orders[o].pickup, priority |-> orders[o].priority]
            \in ScoreMonotoneInLoad

\* The engine has scored two couriers of the registry that differ in load
\* alone, and has picked the one with the smaller load.
C24_Witness ==
    /\ epc = "commit_order"
    /\ DOMAIN couriers = {1, 2}
    /\ couriers[1].capacity = couriers[2].capacity
    /\ couriers[1].location = couriers[2].location
    /\ f64_eq(couriers[1].rating, couriers[2].rating)
    /\ couriers[1].status = "Available" /\ couriers[2].status = "Available"
    /\ couriers[1].current_load = 1 /\ couriers[2].current_load = 0
    /\ winner.id = 2
    /\ f64_gt(winner.score, compute_score(couriers[1], cur))

\* C25: the winner of an iteration is one of the clones taken while the
\* couriers map was iterated in that iteration, and that clone has status
\* Available and current_load < capacity (so a courier that was Busy, Offline
\* or full when it was visited is not chosen); and the assignment the
\* iteration inserts names that winner.
C25_WinnerEligibleInSnapshot ==
    [][/\ (epc = "scan" /\ epc' = "commit_order")
            => \E c \in candidates :
                   /\ c.id = winner'.id
                   /\ c.status = "Available"
                   /\ c.current_load < c.capacity
       /\ (epc = "commit_assignment" /\ epc' = "publish")
            => \E a \in DOMAIN assignments' \ DOMAIN assignments :
                   assignments'[a].courier_id = winner.id]_vars

\* An assignment names a courier that was eligible when the iteration visited
\* it and that ingress has taken Offline before the commit.
C25_Witness ==
    /\ epc = "publish"
    /\ \E a \in DOMAIN assignments :
           /\ assignments[a].order_id = cur.id
           /\ assignments[a].courier_id = winner.id
           /\ couriers[winner.id].status = "Offline"

\* C26: the courier an iteration chooses is a candidate whose score for the
\* order is, in the total order of f64, greater than or equal to the score
\* of every candidate of that iteration; the score kept with the winner is
\* that score, and it is the score of the assignment the iteration inserts.
C26_WinnerHasMaxScore ==
    [][/\ (epc = "scan" /\ epc' = "commit_order")
            => \E w \in candidates :
                   /\ w.id = winner'.id
                   /\ winner'.score = compute_score(w, cur)
                   /\ \A c \in candidates :
                          total_cmp(compute_score(w, cur), compute_score(c, cur)) >= 0
       /\ (epc = "commit_assignment" /\ epc' = "publish")
            => \E a \in DOMAIN assignments' \ DOMAIN assignments :
                   /\ assignments'[a].courier_id = winner.id
                   /\ assignments'[a].score = winner.score]_vars

\* An assignment carries the score of its winner, which is larger than the
\* score of another courier that was a candidate of the iteration (it
\* carries an order of an earlier iteration and can take one more).
C26_Witness ==
    /\ epc = "publish"
    /\ \E a \in DOMAIN assignments :
           /\ assignments[a].order_id = cur.id
           /\ assignments[a].courier_id = winner.id
           /\ assignments[a].score = winner.score
    /\ \E d \in DOMAIN couriers \ {winner.id} :
           /\ couriers[d].current_load = 1
           /\ can_take_order(couriers[d])
           /\ f64_gt(winner.score, compute_score(couriers[d], cur))

\* The assignments to courier c among the first n inserted.
AssignedTo(c, n) ==
    Cardinality({b \in DOMAIN assignments :
                     b <= n /\ assignments[b].courier_id = c})

\* The order the engine processes is recorded as Assigned to the winner.
CurAssignedToWinner ==
    /\ cur.id \in DOMAIN orders
    /\ orders[cur.id].status = "Assigned"
    /\ orders[cur.id].assigned_courier = winner.id

\* A step that writes the registry or sends an event is the step of a commit
\* whose turn it is, and the steps before it have taken effect.
CommitStepInTurn ==
    /\ (\E o \in DOMAIN orders : orders'[o] # orders[o])
         => /\ epc = "commit_order" /\ epc' = "commit_courier"
            /\ CurAssignedToWinner'
            /\ UNCHANGED <<couriers, assignments, events>>
    /\ (\E c \in DOMAIN couriers :
            couriers'[c].current_load # couriers[c].current_load)
         => /\ epc = "commit_courier" /\ epc' = "commit_assignment"
            /\ CurAssignedToWinner
            /\ UNCHANGED <<orders, assignments, events>>
    /\ assignments' # assignments
         => /\ epc = "commit_assignment" /\ epc' = "publish"
            /\ CurAssignedToWinner
            /\ couriers[winner.id].current_load
                   >= AssignedTo(winner.id, Cardinality(DOMAIN assignments)) + 1
            /\ UNCHANGED <<orders, couriers, events>>
    /\ events' # events
         => /\ epc = "publish" /\ epc' = "record"
            /\ \E a \in DOMAIN assignments :
                   /\ events' = Append(events, assignments[a])
                   /\ assignments[a].order_id = cur.id
            /\ UNCHANGED <<orders, couriers, assignments>>

\* What the registry holds for every event a subscriber has received.
DeliveredIsCommitted ==
    \A s \in DOMAIN subscribers :
        \A i \in 1..Len(subscribers[s].delivered) :
            LET id == subscribers[s].delivered[i]
            IN /\ id \in DOMAIN assignments
               /\ LET a == assignments[id]
                  IN /\ orders[a.order_id].status = "Assigned"
                     /\ orders[a.order_id].assigned_courier = a.courier_id
                     /\ couriers[a.courier_id].current_load
                            >= AssignedTo(a.courier_id, id)

\* C27: the steps of a commit take effect in the order: order record, load
\* of the winner, assignment record, event.  The order record is written in
\* the first step; when a load changes the order is already Assigned to the
\* winner; when the assignment is inserted the load of the winner already
\* counts it; when the event is sent the assignment is in the registry.  So
\* for every event a subscriber has received, the registry holds the
\* assignment, the order is Assigned to its courier and the load of that
\* courier counts it.
C27_CommitOrderThenEvent == [][CommitStepInTurn]_vars /\ []DeliveredIsCommitted

\* A subscriber has received the event of the first assignment while the
\* engine is in the middle of the commit of the second.
C27_Witness ==
    /\ epc = "commit_courier"
    /\ \E s \in DOMAIN subscribers : subscribers[s].delivered = <<1>>
    /\ assignments[1].courier_id = winner.id

\* C28: in every state, an order of the registry has status Assigned if and
\* only if the registry holds an assignment record for it.
C28_AssignedIffAssignmentExists ==
    \A o \in DOMAIN orders :
        orders[o].status = "Assigned"
            <=> \E a \in DOMAIN assignments : assignments[a].order_id = o

\* The iteration has committed the order it processes: the order is Assigned
\* to the winner, the assignment is stored and the load of the winner counts
\* it.
CurCommitted ==
    /\ CurAssignedToWinner
    /\ \E a \in DOMAIN assignments :
           /\ assignments[a].order_id = cur.id
           /\ assignments[a].courier_id = winner.id
           /\ couriers[winner.id].current_load >= AssignedTo(winner.id, a)

\* C29: the step that sends the event changes nothing in the registry and
\* ends process_order with success, whether the send finds receivers or
\* fails for want of them; the loop then counts one success.  So an
\* iteration whose send fails ends as one whose send succeeds: order
\* Assigned, load incremented, assignment stored, outcome success.
C29_SendFailureIgnored ==
    [][/\ (epc = "publish" /\ epc' # "publish")
            => /\ sent' = (IF Receivers = {} THEN "Err" ELSE "Ok")
               /\ epc' = "record"
               /\ outcome' = "success"
               /\ CurCommitted /\ CurCommitted'
               /\ UNCHANGED <<registry, totals>>
       /\ (epc = "record" /\ epc' # "record" /\ sent \in {"Err", "Ok"})
            => /\ totals' = [totals EXCEPT !.success = @ + 1]
               /\ UNCHANGED registry]_vars

\* The send of an iteration has failed for want of receivers, and the
\* iteration ends with the commit in place and outcome success.
C29_Witness ==
    /\ epc = "record"
    /\ sent = "Err"
    /\ outcome = "success"
    /\ CurCommitted

\* C30: when the engine picks the winner and at least one candidate of the
\* iteration has a score that is not NaN, the score of the winner is not NaN.
C30_NaNNeverWins ==
    [][(/\ epc = "scan" /\ epc' = "commit_order"
        /\ \E c \in candidates : compute_score(c, cur) # NaN)
           => winner'.score # NaN]_vars

\* C31: with every task scheduled fairly, whenever the engine is at the send
\* that re-queues an order, the send eventually completes and the engine goes
\* on to the gauge increment.
C31_RetrySendCompletes == (epc = "send") ~> (epc = "inc")

\* C32: a step that increments the current_load of a courier finds that
\* courier Available, and no step of the engine changes the status of a
\* courier that is Offline.
C32_CommitOnlyToAvailable ==
    [][\A c \in DOMAIN couriers :
          /\ couriers'[c].current_load # couriers[c].current_load
                => couriers[c].status = "Available"
          /\ (epc' # epc /\ couriers[c].status = "Offline")
                => couriers'[c].status = "Offline"]_vars

\* The slots of the queue that hold order o.
SlotsOf(o) == {i \in 1..Len(queue) : queue[i].id = o}

\* process_order owns order o: it was received and has neither been moved
\* into the re-queue send that completed nor been dropped at the return.
EngineHolds(o) ==
    /\ cur.id = o
    /\ epc \in {"dec", "scan", "sleep", "send", "commit_order", "commit_courier",
                "commit_assignment", "publish"}

\* C33: every order is in at most one place among the slots of the queue and
\* the engine, and an order that is Assigned is in no slot of the queue.
C33_OrderInOnePlace ==
    \A o \in DOMAIN orders :
        /\ Cardinality(SlotsOf(o)) + (IF EngineHolds(o) THEN 1 ELSE 0) <= 1
        /\ orders[o].status = "Assigned" => SlotsOf(o) = {}

\* Order 1 was re-queued once and is held by the engine again, while order 2
\* waits in the queue.
C33_Witness ==
    /\ totals.success = 1
    /\ assignments = <<>>
    /\ EngineHolds(1)
    /\ epc = "send"
    /\ Len(queue) = 1
    /\ queue[1].id = 2
====
